---------------------------- MODULE Spec2Model ----------------------------
(***************************************************************************)
(* A model of src/chat_bot.py: the AlienBot session (run, _ask_name, chat), *)
(* the reply dispatcher (_reply) with its six regular-expression intents,   *)
(* the keyword sets, and the question bank (next_question).                 *)
(*                                                                          *)
(* Text is a sequence of one-character strings, so that lower(), strip(),   *)
(* split(), the substring test of _wants_exit and the regular expressions   *)
(* are computed on characters as Python computes them.  The alphabet is     *)
(* ASCII: letters, digits, "_", space, tab and punctuation.                 *)
(*                                                                          *)
(* input() is modelled as returning some line of the input set; a closed    *)
(* standard input (EOFError) is outside the model.                          *)
(***************************************************************************)
EXTENDS Integers, Sequences, FiniteSets, TLC

VARIABLES entry, pc, name, asked, question_bank, line, rule, out, err, cycle

vars == <<entry, pc, name, asked, question_bank, line, rule, out, err, cycle>>

---------------------------------------------------------------------------
(* Characters and the str methods the program uses.                        *)

UpperLetters == <<"A","B","C","D","E","F","G","H","I","J","K","L","M",
                  "N","O","P","Q","R","S","T","U","V","W","X","Y","Z">>

LowerLetters == <<"a","b","c","d","e","f","g","h","i","j","k","l","m",
                  "n","o","p","q","r","s","t","u","v","w","x","y","z">>

DigitChars == <<"0","1","2","3","4","5","6","7","8","9">>

Range(f) == {f[i] : i \in DOMAIN f}

IsUpper(c) == c \in Range(UpperLetters)

IsLower(c) == c \in Range(LowerLetters)

IsLetter(c) == IsUpper(c) \/ IsLower(c)

IsDigit(c) == c \in Range(DigitChars)

\* str.isspace() on the model's alphabet
IsSpace(c) == c \in {" ", "\t"}

\* the regular expression class \w
IsWordChar(c) == IsLetter(c) \/ IsDigit(c) \/ c = "_"

LowerChar(c) ==
    IF IsUpper(c)
    THEN LowerLetters[CHOOSE i \in DOMAIN UpperLetters : UpperLetters[i] = c]
    ELSE c

UpperChar(c) ==
    IF IsLower(c)
    THEN UpperLetters[CHOOSE i \in DOMAIN LowerLetters : LowerLetters[i] = c]
    ELSE c

\* str.lower()
lower(s) == [i \in 1..Len(s) |-> LowerChar(s[i])]

\* str.title(): a letter that follows a non-letter is upper-cased, any other
\* letter is lower-cased
title(s) ==
    [i \in 1..Len(s) |->
        IF i = 1 \/ ~IsLetter(s[i - 1]) THEN UpperChar(s[i]) ELSE LowerChar(s[i])]

\* strip with a fault: the line is kept as read
strip_none(s) == s

\* str.strip(): leading and trailing whitespace removed
strip(s) ==
    IF \A i \in 1..Len(s) : IsSpace(s[i]) THEN <<>>
    ELSE LET a == CHOOSE i \in 1..Len(s) :
                      ~IsSpace(s[i]) /\ \A j \in 1..(i - 1) : IsSpace(s[j])
             b == CHOOSE i \in 1..Len(s) :
                      ~IsSpace(s[i]) /\ \A j \in (i + 1)..Len(s) : IsSpace(s[j])
         IN  SubSeq(s, a, b)

\* str.split(): the maximal runs of non-whitespace characters, in order
RECURSIVE SplitFrom(_, _)
SplitFrom(s, i) ==
    LET rest == {j \in i..Len(s) : ~IsSpace(s[j])}
    IN  IF rest = {} THEN <<>>
        ELSE LET a     == CHOOSE j \in rest : \A k \in rest : j <= k
                 stops == {j \in a..Len(s) : IsSpace(s[j])}
                 b     == IF stops = {} THEN Len(s) + 1
                          ELSE CHOOSE j \in stops : \A k \in stops : j <= k
             IN  <<SubSeq(s, a, b - 1)>> \o SplitFrom(s, b)

split(s) == SplitFrom(s, 1)

\* the Python test `w in t` on strings: w occurs in t as a substring
Contains(t, w) ==
    \E i \in 1..(Len(t) - Len(w) + 1) : SubSeq(t, i, i + Len(w) - 1) = w

---------------------------------------------------------------------------
(* Regular expressions.  A pattern is matched as a set of positions: an    *)
(* element maps the positions where it may start to those where it may     *)
(* end.  Position i is the gap before character i; Len(s)+1 is the end.    *)
(* Every pattern is compiled with re.I, so literals compare lower-cased.   *)

Positions(s) == 1..(Len(s) + 1)

WordAt(s, i) == i \in 1..Len(s) /\ IsWordChar(s[i])

\* \b
Boundary(s, i) == WordAt(s, i - 1) # WordAt(s, i)

LitAt(s, i, w) ==
    /\ i + Len(w) - 1 <= Len(s)
    /\ \A k \in 1..Len(w) : LowerChar(s[i + k - 1]) = w[k]

\* a literal word
Lit(s, P, w) == {i + Len(w) : i \in {p \in P : LitAt(s, p, w)}}

\* \b
Bnd(s, P) == {p \in P : Boundary(s, p)}

\* \s+
Ws(s, P) ==
    UNION {{j \in (p + 1)..(Len(s) + 1) : \A k \in p..(j - 1) : IsSpace(s[k])} : p \in P}

\* the end of the longest run of characters of class digits/letters from i
DigitRunEnd(s, i) ==
    LET stops == {j \in i..Len(s) : ~IsDigit(s[j])}
    IN  IF stops = {} THEN Len(s) + 1
        ELSE CHOOSE j \in stops : \A k \in stops : j <= k

LetterRunEnd(s, i) ==
    LET stops == {j \in i..Len(s) : ~IsLetter(s[j])}
    IN  IF stops = {} THEN Len(s) + 1
        ELSE CHOOSE j \in stops : \A k \in stops : j <= k

MaxOf(S) == CHOOSE x \in S : \A y \in S : y <= x

\* .*\b(?:your|alien|et cetera['’]?s?)\s+planet\b.*   (the apostrophe class
\* restricted to the ASCII apostrophe)
describe_planet_re(s) ==
    LET b   == Bnd(s, Positions(s))
        etc == Lit(s, b, <<"e","t"," ","c","e","t","e","r","a">>)
        ap  == etc \cup Lit(s, etc, <<"'">>)
        ss  == ap \cup Lit(s, ap, <<"s">>)
        own == Lit(s, b, <<"y","o","u","r">>) \cup Lit(s, b, <<"a","l","i","e","n">>) \cup ss
    IN  Bnd(s, Lit(s, Ws(s, own), <<"p","l","a","n","e","t">>)) # {}

\* .*\bwhy\s+are\s+you\s+(?:here|on\s+earth)\b.*
why_here_re(s) ==
    LET you == Lit(s, Ws(s, Lit(s, Ws(s, Lit(s, Bnd(s, Positions(s)), <<"w","h","y">>)), <<"a","r","e">>)), <<"y","o","u">>)
        w   == Ws(s, you)
        loc == Lit(s, w, <<"h","e","r","e">>) \cup Lit(s, Ws(s, Lit(s, w, <<"o","n">>)), <<"e","a","r","t","h">>)
    IN  Bnd(s, loc) # {}

\* .*\bcube(?:\s+the\s+number)?\s+(\d+)\b.*  : the <<start of "cube", start of
\* the group, end of the group>> of every way the pattern matches.  \d+ is
\* followed by \b, so the group is a whole run of digits.
cube_matches(s) ==
    {m \in UNION {LET c  == Lit(s, {i}, <<"c","u","b","e">>)
                      th == Lit(s, Ws(s, Lit(s, Ws(s, c), <<"t","h","e">>)), <<"n","u","m","b","e","r">>)
                  IN  {<<i, a, DigitRunEnd(s, a)>> : a \in Ws(s, c \cup th)}
                  : i \in Bnd(s, Positions(s))} :
        m[3] > m[2] /\ Boundary(s, m[3])}

cube_re(s) == cube_matches(s) # {}

\* m.group(1): the leading .* is greedy, so the match is the one whose "cube"
\* starts last
cube_group(s) ==
    LET last == MaxOf({m[1] : m \in cube_matches(s)})
        m    == CHOOSE x \in cube_matches(s) : x[1] = last
    IN  SubSeq(s, m[2], m[3] - 1)

\* .*\bweather\s+(?:in|on|at)\s+([a-z]{2,})\b.*
weather_matches(s) ==
    {m \in UNION {LET w == Ws(s, Lit(s, {i}, <<"w","e","a","t","h","e","r">>))
                      p == Lit(s, w, <<"i","n">>) \cup Lit(s, w, <<"o","n">>) \cup Lit(s, w, <<"a","t">>)
                  IN  {<<i, a, LetterRunEnd(s, a)>> : a \in Ws(s, p)}
                  : i \in Bnd(s, Positions(s))} :
        m[3] >= m[2] + 2 /\ Boundary(s, m[3])}

weather_re(s) == weather_matches(s) # {}

weather_group(s) ==
    LET last == MaxOf({m[1] : m \in weather_matches(s)})
        m    == CHOOSE x \in weather_matches(s) : x[1] = last
    IN  SubSeq(s, m[2], m[3] - 1)

\* .*\b(how\s+many|number\s+of)\s+humans?\b.*
count_humans_re(s) ==
    LET b   == Bnd(s, Positions(s))
        q   == Lit(s, Ws(s, Lit(s, b, <<"h","o","w">>)), <<"m","a","n","y">>)
                 \cup Lit(s, Ws(s, Lit(s, b, <<"n","u","m","b","e","r">>)), <<"o","f">>)
        hum == Lit(s, Ws(s, q), <<"h","u","m","a","n">>)
    IN  Bnd(s, hum \cup Lit(s, hum, <<"s">>)) # {}

\* .*\bwhat\s+do\s+(?:you|humans?)\s+eat\b.*
eat_re(s) ==
    LET d   == Ws(s, Lit(s, Ws(s, Lit(s, Bnd(s, Positions(s)), <<"w","h","a","t">>)), <<"d","o">>))
        hum == Lit(s, d, <<"h","u","m","a","n">>)
        who == Lit(s, d, <<"y","o","u">>) \cup hum \cup Lit(s, hum, <<"s">>)
    IN  Bnd(s, Lit(s, Ws(s, who), <<"e","a","t">>)) # {}

\* \bhow\s+are\s+you\b
how_are_you_re(s) ==
    Bnd(s, Lit(s, Ws(s, Lit(s, Ws(s, Lit(s, Bnd(s, Positions(s)), <<"h","o","w">>)), <<"a","r","e">>)), <<"y","o","u">>)) # {}

\* \bwhere\s+are\s+you\s+from\b
where_from_re(s) ==
    LET you == Lit(s, Ws(s, Lit(s, Ws(s, Lit(s, Bnd(s, Positions(s)), <<"w","h","e","r","e">>)), <<"a","r","e">>)), <<"y","o","u">>)
    IN  Bnd(s, Lit(s, Ws(s, you), <<"f","r","o","m">>)) # {}

---------------------------------------------------------------------------
(* The class constants.                                                    *)

EXIT_WORDS ==
    {<<"q","u","i","t">>, <<"p","a","u","s","e">>, <<"e","x","i","t">>, <<"g","o","o","d","b","y","e">>, <<"b","y","e">>, <<"l","a","t","e","r">>, <<"g","o","t"," ","t","o"," ","g","o">>,
     <<"s","e","e"," ","y","o","u">>, <<"f","a","r","e","w","e","l","l">>, <<"c","a","t","c","h"," ","y","o","u"," ","l","a","t","e","r">>, <<"i","'","m"," ","o","u","t">>, <<"i"," ","a","m"," ","o","u","t">>}

YES ==
    {<<"y","e","s">>, <<"y","e","a","h">>, <<"y","e","p">>, <<"y">>, <<"s","u","r","e">>, <<"o","k">>, <<"o","k","a","y">>, <<"d","e","f","i","n","i","t","e","l","y">>,
     <<"a","b","s","o","l","u","t","e","l","y">>, <<"o","f"," ","c","o","u","r","s","e">>, <<"c","e","r","t","a","i","n","l","y">>, <<"a","f","f","i","r","m","a","t","i","v","e">>, <<"i","n","d","e","e","d">>,
     <<"y","e","s","s","i","r">>, <<"y","e","a">>}

NO ==
    {<<"n","o">>, <<"n","o","p","e">>, <<"n","a","h">>, <<"n","a","w">>, <<"n","o","t"," ","r","e","a","l","l","y">>, <<"n","e","v","e","r">>, <<"n","o","p","e">>,
     <<"n","e","g","a","t","i","v","e">>, <<"n","a","y">>, <<"a","b","s","o","l","u","t","e","l","y"," ","n","o","t">>, <<"n","o","t"," ","a","t"," ","a","l","l">>}

GREET_WORDS ==
    {<<"h","i">>, <<"h","e","l","l","o">>, <<"h","e","y">>, <<"g","r","e","e","t","i","n","g","s">>, <<"h","i","y","a">>, <<"y","o">>, <<"s","a","l","u","t","a","t","i","o","n","s">>,
     <<"s","u","p">>, <<"g","o","o","d"," ","m","o","r","n","i","n","g">>, <<"g","o","o","d"," ","a","f","t","e","r","n","o","o","n">>, <<"g","o","o","d"," ","e","v","e","n","i","n","g">>, <<"h","o","w","d","y">>}

\* INTENT_RE with a fault: "cube" entered before "describe_planet"
INTENT_RE_cube_first ==
    <<"cube", "describe_planet", "why_here", "weather", "count Humans", "eat">>

\* the keys of INTENT_RE in insertion order, which is the order dict.items()
\* iterates in
INTENT_RE ==
    <<"describe_planet", "why_here", "cube", "weather", "count Humans", "eat">>

\* pattern.search(text) is not None, for the pattern of one intent
IntentMatches(intent, text) ==
    CASE intent = "describe_planet" -> describe_planet_re(text)
      [] intent = "why_here"        -> why_here_re(text)
      [] intent = "cube"            -> cube_re(text)
      [] intent = "weather"         -> weather_re(text)
      [] intent = "count Humans"    -> count_humans_re(text)
      [] intent = "eat"             -> eat_re(text)

\* the names the module binds before _show_capabilities runs: its imports and
\* its class
ModuleGlobals == {"annotations", "json", "random", "os", "re", "List", "Optional", "AlienBot"}

\* sys.int_info.default_max_str_digits: int(str) raises ValueError on a longer
\* digit string (CPython 3.11, and the security releases of 3.7 to 3.10)
IntMaxStrDigits == 4300

None == <<"None">>

Earthling == <<"E","a","r","t","h","l","i","n","g">>

---------------------------------------------------------------------------
(* What print() writes: one item for each call.                            *)

Item(kind, text, arg, n, m) == [kind |-> kind, text |-> text, arg |-> arg, n |-> n, m |-> m]

Fixed(text) == Item("fixed", text, <<>>, 0, 0)

Banner == Item("banner", "Hello Earthling!  I'm Etcetera from the Wayward Galaxies.", <<>>, 0, 0)

\* f"Nice to meet you, {self.name}!\n"
Greeting(n) == Item("greeting", "Nice to meet you, {name}!", n, 0, 0)

Capabilities == Item("capabilities", "I understand a few things already", <<>>, 0, 0)

Farewell == Item("farewell", "Safe travels across the stars", <<>>, 0, 0)

PLANET_LINES ==
    {"My home, Opidipus, has two violet moons and sings at night.",
     "We breathe neon and dream in ultraviolet.",
     "Picture a utopia of symbiotic species-no wars, only music."}

WHY_LINES ==
    {"Curiosity is the fuel of my civilisation.",
     "My queen commanded it-who could refuse?",
     "I was sent to study your emotional variability."}

EAT_LINES ==
    {"I feed on starlight and dark matter.",
     "My fuel cell runs on recycled comets.",
     "Today I had photon soup-delicious!"}

GREETING_LINES == {"Hello again!", "Salutations!", "Greetings!"}

HOW_ARE_YOU_LINE == "I'm functioning perfectly-my fuel cell is at 100 %! How are *you* feeling?"

WHERE_FROM_LINE == "I hail from Opidipus, capital of the Wayward Galaxies. And you-where do you call home?"

CENSUS_LINE == "Last galactic census counted roughly 8 billion of you. Impressive!"

\* the result of a call: the value printed (item), the asked-set it leaves,
\* whether it cleared the asked-set, and the exception it raised ("" if none)
Outcome(r, item, a, cleared, e) ==
    [rule |-> r, item |-> item, asked |-> a, cleared |-> cleared, err |-> e]

NoItem == Item("none", "", <<>>, 0, 0)

---------------------------------------------------------------------------
(* The question bank.  question_bank is the sequence of the dict's values  *)
(* in insertion order, each a sequence of question strings.                *)

RECURSIVE Flatten(_)
\* [q for qs in self.question_bank.values() for q in qs]
Flatten(bank) ==
    IF bank = <<>> THEN <<>> ELSE Head(bank) \o Flatten(Tail(bank))

BankQuestions(bank) == Range(Flatten(bank))

NotAsked(a, q) == q \notin a

\* Pool with a fault: the filter on the asked-set is left out
Pool_unfiltered(bank, a) == Flatten(bank)

\* [q for qs in self.question_bank.values() for q in qs if q not in self.asked]
Pool(bank, a) == SelectSeq(Flatten(bank), LAMBDA q : NotAsked(a, q))

\* asked_add with a fault: the question is not recorded
asked_add_skipped(a, q) == a

\* self.asked.add(q)
asked_add(a, q) == a \cup {q}

\* next_question: every outcome random.choice allows.  random.choice raises
\* IndexError on an empty sequence; asked.clear() has run by then.
next_question(bank, a) ==
    LET first   == Pool(bank, a)
        cleared == first = <<>>
        a1      == IF cleared THEN {} ELSE a
        pool    == IF cleared THEN Flatten(bank) ELSE first
    IN  IF pool = <<>>
        THEN {Outcome("fallback", NoItem, a1, cleared, "IndexError")}
        ELSE {Outcome("fallback", Item("question", pool[i], <<>>, 0, 0),
                      asked_add(a1, pool[i]), cleared, "")
              : i \in DOMAIN pool}

---------------------------------------------------------------------------
(* The intent handlers.                                                    *)

DigitValue(c) == (CHOOSE i \in DOMAIN DigitChars : DigitChars[i] = c) - 1

RECURSIVE DecimalValue(_)
DecimalValue(s) ==
    IF s = <<>> THEN 0
    ELSE 10 * DecimalValue(SubSeq(s, 1, Len(s) - 1)) + DigitValue(s[Len(s)])

\* the value int(s) returns for a string of decimal digits: leading zeros
\* carry no value
int(s) ==
    LET nz == {i \in DOMAIN s : s[i] # "0"}
    IN  IF nz = {} THEN 0
        ELSE DecimalValue(SubSeq(s, CHOOSE i \in nz : \A j \in nz : i <= j, Len(s)))

\* int(s) raises ValueError: s is not a string of digits, or the interpreter
\* limits the length of the digit strings it converts and s is longer
int_raises(s, limited) ==
    \/ s = <<>>
    \/ \E i \in DOMAIN s : ~IsDigit(s[i])
    \/ limited /\ Len(s) > IntMaxStrDigits

\* _cube: n = int(num_str); f"{n} cubed is {n ** 3}. ..."
\* The interpreter is one with the digit limit or one without.
_cube(num_str, a) ==
    {IF int_raises(num_str, limited)
     THEN Outcome("cube", NoItem, a, FALSE, "ValueError")
     ELSE LET n == int(num_str)
          IN  Outcome("cube", Item("cube", "{n} cubed is {n ** 3}. Isn't that cool?",
                                   <<>>, n, n * n * n), a, FALSE, "")
     : limited \in BOOLEAN}

\* _weather: temp = random.randint(-15, 40); city.title()
_weather(city, a) ==
    {Outcome("weather", Item("weather", "My sensors say {city} is {temp} C today-probably.",
                             title(city), temp, 0), a, FALSE, "")
     : temp \in (-15)..40}

Choice(r, texts, a) == {Outcome(r, Fixed(t), a, FALSE, "") : t \in texts}

---------------------------------------------------------------------------
(* The reply engine.                                                       *)

RECURSIVE FirstIntent(_, _)
\* the for loop over INTENT_RE.items(): the first intent whose pattern
\* matches, or "none"
FirstIntent(text, k) ==
    IF k > Len(INTENT_RE) THEN "none"
    ELSE IF IntentMatches(INTENT_RE[k], text) THEN INTENT_RE[k]
    ELSE FirstIntent(text, k + 1)

\* in_YES with a fault: a yes word at the start of the text counts
in_YES_prefix(t) == \E w \in YES : Len(w) <= Len(t) /\ SubSeq(t, 1, Len(w)) = w

\* t in self.YES
in_YES(t) == t \in YES

\* t in self.NO
in_NO(t) == t \in NO

\* len(tokens) == 1 and tokens[0] in self.GREET_WORDS
is_greeting(t) ==
    LET tokens == split(t)
    IN  Len(tokens) = 1 /\ tokens[1] \in GREET_WORDS

\* what _reply decides from the text alone: the branch it takes and the
\* group it hands to the handler
Plan(r, arg) == [rule |-> r, arg |-> arg]

dispatch(text) ==
    LET t      == lower(text)
        intent == FirstIntent(text, 1)
    IN  CASE intent = "cube"    -> Plan(intent, cube_group(text))
          [] intent = "weather" -> Plan(intent, weather_group(text))
          [] intent # "none" /\ intent # "cube" /\ intent # "weather" -> Plan(intent, <<>>)
          [] OTHER ->
                IF how_are_you_re(t) THEN Plan("how_are_you", <<>>)
                ELSE IF where_from_re(t) THEN Plan("where_from", <<>>)
                ELSE IF is_greeting(t) THEN Plan("greeting", <<>>)
                ELSE IF in_YES(t) THEN Plan("yes", <<>>)
                ELSE IF in_NO(t) THEN Plan("no", <<>>)
                ELSE Plan("fallback", <<>>)

\* the handler of each branch: every outcome the random choices allow
handle(plan, bank, a) ==
    CASE plan.rule = "describe_planet" -> Choice(plan.rule, PLANET_LINES, a)
      [] plan.rule = "why_here"        -> Choice(plan.rule, WHY_LINES, a)
      [] plan.rule = "cube"            -> _cube(plan.arg, a)
      [] plan.rule = "weather"         -> _weather(plan.arg, a)
      [] plan.rule = "count Humans"    -> Choice(plan.rule, {CENSUS_LINE}, a)
      [] plan.rule = "eat"             -> Choice(plan.rule, EAT_LINES, a)
      [] plan.rule = "how_are_you"     -> Choice(plan.rule, {HOW_ARE_YOU_LINE}, a)
      [] plan.rule = "where_from"      -> Choice(plan.rule, {WHERE_FROM_LINE}, a)
      [] plan.rule = "greeting"        -> Choice(plan.rule, GREETING_LINES, a)
      [] plan.rule = "yes"             -> Choice(plan.rule, {"Splendid!"}, a)
      [] plan.rule = "no"              -> Choice(plan.rule, {"Understood."}, a)
      [] plan.rule = "fallback"        -> next_question(bank, a)

\* _wants_exit with a fault: an exit word counts only as a whole token
_wants_exit_token(text) == \E w \in EXIT_WORDS : w \in Range(split(lower(text)))

\* any(w in text.lower() for w in self.EXIT_WORDS)
_wants_exit(text) == \E w \in EXIT_WORDS : Contains(lower(text), w)

\* ask_name_value with a fault: the default also replaces a name that is
\* an exit word
ask_name_value_exit(ans) == IF ans = <<>> \/ _wants_exit(ans) THEN Earthling ELSE ans

\* ans or "Earthling"
ask_name_value(ans) == IF ans = <<>> THEN Earthling ELSE ans

\* one turn of chat() up to the reply: user = input("> ").strip(), the blank
\* test, the exit test and, for a line that is neither, the branch of _reply
Read(l) ==
    LET user == strip(l)
    IN  [line |-> l,
         user |-> user,
         plan |-> IF user = <<>> THEN Plan("blank", <<>>)
                  ELSE IF _wants_exit(user) THEN Plan("exit", <<>>)
                  ELSE dispatch(user)]

---------------------------------------------------------------------------
(* The inputs.                                                             *)

\* lines typed at the name prompt
NameLines ==
    {<<>>, <<" "," ">>, <<"A","n","n">>, <<" ","B","o"," ","\t">>, <<"b","y","e">>, <<"E","a","r","t","h","l","i","n","g">>}

\* lines typed at the chat prompt
BlankLines == {<<>>, <<" ">>, <<" ","\t"," ">>}

ExitLines ==
    {<<"b","y","e">>, <<"G","o","o","d","b","y","e"," ","A","n","n">>, <<" ","Q","U","I","T"," ">>, <<"c","o","l","l","a","t","e","r","a","l","l","y">>, <<"o","k"," ","g","o","t"," ","t","o"," ","g","o"," ","n","o","w">>,
     <<"c","u","b","e"," ","4"," ","b","y","e">>, <<"w","h","y"," ","a","r","e"," ","y","o","u"," ","h","e","r","e","?"," ","b","y","e">>, <<"h","o","w"," ","a","r","e"," ","y","o","u","?"," ","s","e","e"," ","y","o","u">>,
     <<"h","i",","," ","i","'","m"," ","o","u","t">>, <<"y","e","s",","," ","l","a","t","e","r">>, <<"e","x","i","t">>}

IntentLines ==
    {<<"t","e","l","l"," ","m","e"," ","a","b","o","u","t"," ","y","o","u","r"," ","p","l","a","n","e","t">>, <<"A","l","i","e","n"," "," ","p","l","a","n","e","t","!">>, <<"w","h","y"," ","a","r","e"," ","y","o","u"," ","h","e","r","e","?">>,
     <<"W","h","y"," ","a","r","e"," ","y","o","u"," ","o","n"," ","e","a","r","t","h">>, <<"c","u","b","e"," ","4">>, <<"p","l","e","a","s","e"," ","c","u","b","e"," ","t","h","e"," ","n","u","m","b","e","r"," ","1","2"," ","n","o","w">>,
     <<"c","u","b","e"," ","0","0","7">>, <<"c","u","b","e"," ","2"," ","c","u","b","e"," ","3">>, <<"w","h","a","t"," ","i","s"," ","t","h","e"," ","w","e","a","t","h","e","r"," ","i","n"," ","p","a","r","i","s">>,
     <<"h","o","w"," ","m","a","n","y"," ","h","u","m","a","n","s"," ","a","r","e"," ","t","h","e","r","e","?">>, <<"n","u","m","b","e","r"," ","o","f"," ","h","u","m","a","n">>, <<"w","h","a","t"," ","d","o"," ","y","o","u"," ","e","a","t","?">>,
     <<"c","u","b","e"," ","3"," ","y","o","u","r"," ","p","l","a","n","e","t">>, <<"w","h","y"," ","a","r","e"," ","y","o","u"," ","h","e","r","e"," ","o","n"," ","y","o","u","r"," ","p","l","a","n","e","t">>,
     <<"w","h","a","t"," ","d","o"," ","h","u","m","a","n","s"," ","e","a","t",","," ","h","o","w"," ","m","a","n","y"," ","h","u","m","a","n","s">>, <<"w","e","a","t","h","e","r"," ","i","n"," ","r","o","m","e",","," ","c","u","b","e"," ","5">>,
     <<"y","o","u","r"," ","p","l","a","n","e","t",","," ","h","o","w"," ","a","r","e"," ","y","o","u">>, <<"w","h","a","t"," ","d","o"," ","y","o","u"," ","e","a","t","?"," ","h","o","w"," ","a","r","e"," ","y","o","u">>}

SmallTalkLines ==
    {<<"h","o","w"," ","a","r","e"," ","y","o","u">>, <<" ","H","o","w"," ","A","r","e"," ","Y","o","u","?"," ">>, <<"w","h","e","r","e"," ","a","r","e"," ","y","o","u"," ","f","r","o","m">>,
     <<"h","o","w"," ","a","r","e"," ","y","o","u",","," ","w","h","e","r","e"," ","a","r","e"," ","y","o","u"," ","f","r","o","m">>, <<"y","e","s"," ","h","o","w"," ","a","r","e"," ","y","o","u">>}

GreetingLines == {<<"h","i">>, <<" ","H","e","y"," ">>, <<"y","o">>, <<"h","o","w","d","y">>}

YesNoLines ==
    {<<"y","e","s">>, <<" ","Y","e","s"," ">>, <<"o","f"," ","c","o","u","r","s","e">>, <<"Y">>, <<"o","k">>, <<"a","b","s","o","l","u","t","e","l","y">>,
     <<"n","o">>, <<"n","o","t"," ","r","e","a","l","l","y">>, <<"N","O","P","E">>, <<"a","b","s","o","l","u","t","e","l","y"," ","n","o","t">>, <<"n","o","t"," ","a","t"," ","a","l","l">>}

FallbackLines ==
    {<<"z","z","z">>, <<"y","e","s","p","l","e","a","s","e">>, <<"y","e","s"," ","y","e","s">>, <<"o","h"," ","n","o">>, <<"h","i"," ","t","h","e","r","e">>, <<"g","o","o","d"," ","m","o","r","n","i","n","g">>,
     <<"c","u","b","e"," ","1","2","a","b","c">>, <<"i","c","e","c","u","b","e"," ","3">>, <<"o","f"," "," ","c","o","u","r","s","e">>, <<"w","e","a","t","h","e","r"," ","i","n"," ","x">>, <<"?">>}

ChatLines ==
    BlankLines \cup ExitLines \cup IntentLines \cup SmallTalkLines \cup GreetingLines
        \cup YesNoLines \cup FallbackLines

\* the longest numeric group of the cube lines
MaxDigits == 2

\* the strings of one to n decimal digits
DigitStrings(n) == UNION {[1..k -> Range(DigitChars)] : k \in 1..n}

\* a numeric group longer than the interpreter's limit, of value 2
LongDigits == [i \in 1..(IntMaxStrDigits + 1) |-> IF i <= IntMaxStrDigits THEN "0" ELSE "2"]

CubeLines ==
    {<<"c","u","b","e"," ">> \o d : d \in DigitStrings(MaxDigits) \cup {LongDigits}}
        \cup {<<"C","u","b","e"," ","t","h","e"," ","n","u","m","b","e","r"," ">> \o d \o <<"?">> : d \in DigitStrings(MaxDigits)}

\* the lines of the question bank specification
BankLines == {<<"z","z","z">>, <<"y","e","s","p","l","e","a","s","e">>, <<"g","o","o","d"," ","m","o","r","n","i","n","g">>, <<"y","e","s">>, <<"n","o">>}

\* the question texts of the banks
QuestionTexts == <<"Q1", "Q2", "Q3", "Q4", "Q5", "Q6">>

\* the largest number of questions in a bank
MaxBank == 3

Questions == {QuestionTexts[i] : i \in 1..MaxBank}

\* every bank of two categories holding at most MaxBank questions in all
\* (a question may occur more than once), and the bank with no category
Banks ==
    {<<>>} \cup
    UNION {{<<SubSeq(f, 1, k), SubSeq(f, k + 1, Len(f))>> : k \in 0..Len(f)}
           : f \in UNION {[1..n -> Questions] : n \in 0..MaxBank}}

\* the banks of the session specification
SessionBanks ==
    {<<>>, <<<<>>>>, <<<<"Q1">>>>, <<<<"Q1", "Q2">>, <<"Q2">>>>}

---------------------------------------------------------------------------
(* The session.  entry is "run" for the program (AlienBot().run()) and     *)
(* "client" for a client of the class that calls _ask_name() and chat()    *)
(* itself and sees an exception as the outcome of its call.                *)
(*   pc: START     _ask_name is about to read the name                     *)
(*       NAMED     the greeting is printed, _show_capabilities is next     *)
(*       CHATTING  chat() is about to read a line                          *)
(*       ENDED     chat() has returned (and run() printed the farewell)    *)
(*       ERROR     an exception left the running method                    *)
(*       IDLE      the client holds the object, no method is running       *)
(* line is the last line read, rule the branch that handled it, out what   *)
(* the last step printed, cycle the questions returned since the asked-set *)
(* was last cleared (a history variable).                                  *)

Init ==
    /\ entry \in {"run", "client"}
    /\ pc = IF entry = "run" THEN "START" ELSE "IDLE"
    /\ name = None
    /\ asked = {}
    /\ question_bank \in SessionBanks
    /\ line = <<>>
    /\ rule = ""
    /\ out = IF entry = "run" THEN <<Banner>> ELSE <<>>
    /\ err = ""
    /\ cycle = <<>>

\* the client calls method m of the object
ClientCall(m) ==
    /\ entry = "client"
    /\ pc \in {"IDLE", "ENDED", "ERROR"}
    /\ pc' = IF m = "_ask_name" THEN "START" ELSE "CHATTING"
    /\ rule' = ""
    /\ out' = <<>>
    /\ err' = ""
    /\ UNCHANGED <<entry, name, asked, question_bank, line, cycle>>

Call == \E m \in {"_ask_name", "chat"} : ClientCall(m)

CallChat == ClientCall("chat")

\* _ask_name, up to its call of _show_capabilities
AskName ==
    /\ pc = "START"
    /\ \E l \in NameLines :
          /\ line' = l
          /\ name' = ask_name_value(strip(l))
    /\ out' = <<Greeting(name')>>
    /\ pc' = "NAMED"
    /\ rule' = ""
    /\ UNCHANGED <<entry, asked, question_bank, err, cycle>>

\* _show_capabilities: the name textwrap is looked up in the module's
\* globals; NameError leaves _ask_name and run()
ShowCapabilities ==
    /\ pc = "NAMED"
    /\ IF "textwrap" \in ModuleGlobals
       THEN /\ out' = <<Capabilities>>
            /\ pc' = IF entry = "run" THEN "CHATTING" ELSE "IDLE"
            /\ err' = err
       ELSE /\ out' = <<>>
            /\ pc' = "ERROR"
            /\ err' = "NameError"
    /\ UNCHANGED <<entry, name, asked, question_bank, line, rule, cycle>>

\* chat(): a line that is empty after strip()
ChatBlankTurn(r) ==
    /\ pc = "CHATTING"
    /\ r.plan.rule = "blank"
    /\ line' = r.line
    /\ rule' = "blank"
    /\ out' = <<>>
    /\ UNCHANGED <<entry, pc, name, asked, question_bank, err, cycle>>

\* chat(): _wants_exit(user) returns; in run() the farewell follows
ChatExitTurn(r) ==
    /\ pc = "CHATTING"
    /\ r.plan.rule = "exit"
    /\ line' = r.line
    /\ rule' = "exit"
    /\ pc' = "ENDED"
    /\ out' = IF entry = "run" THEN <<Farewell>> ELSE <<>>
    /\ UNCHANGED <<entry, name, asked, question_bank, err, cycle>>

\* chat(): print(self._reply(user))
ChatReplyTurn(r) ==
    /\ pc = "CHATTING"
    /\ r.plan.rule \notin {"blank", "exit"}
    /\ \E o \in handle(r.plan, question_bank, asked) :
          /\ rule' = o.rule
          /\ asked' = o.asked
          /\ err' = o.err
          /\ out' = IF o.err = "" THEN <<o.item>> ELSE <<>>
          /\ pc' = IF o.err = "" THEN "CHATTING" ELSE "ERROR"
          /\ cycle' = IF o.item.kind = "question"
                      THEN IF o.cleared THEN <<o.item.text>> ELSE Append(cycle, o.item.text)
                      ELSE IF o.cleared THEN <<>> ELSE cycle
    /\ line' = r.line
    /\ UNCHANGED <<entry, name, question_bank>>

\* the turns of the session specification
ChatTurns == {Read(l) : l \in ChatLines}

ChatBlank == \E r \in ChatTurns : ChatBlankTurn(r)

ChatExit == \E r \in ChatTurns : ChatExitTurn(r)

ChatReply == \E r \in ChatTurns : ChatReplyTurn(r)

Next == Call \/ AskName \/ ShowCapabilities \/ ChatBlank \/ ChatExit \/ ChatReply

Spec == Init /\ [][Next]_vars

\* The question bank alone: a client in chat() answering lines that reach
\* the fallback, over every bank of Banks.
InitBank ==
    /\ entry = "client"
    /\ pc = "IDLE"
    /\ name = None
    /\ asked = {}
    /\ question_bank \in Banks
    /\ line = <<>>
    /\ rule = ""
    /\ out = <<>>
    /\ err = ""
    /\ cycle = <<>>

BankTurns == {Read(l) : l \in BankLines}

ChatFallback == \E r \in BankTurns : ChatReplyTurn(r)

NextBank == CallChat \/ ChatFallback

SpecBank == InitBank /\ [][NextBank]_vars

\* The cube intent alone: a client in chat() typing the lines of CubeLines.
InitCube ==
    /\ entry = "client"
    /\ pc = "IDLE"
    /\ name = None
    /\ asked = {}
    /\ question_bank = <<<<"Q1">>>>
    /\ line = <<>>
    /\ rule = ""
    /\ out = <<>>
    /\ err = ""
    /\ cycle = <<>>

CubeTurns == {Read(l) : l \in CubeLines}

ChatCube == \E r \in CubeTurns : ChatReplyTurn(r)

NextCube == CallChat \/ ChatCube

SpecCube == InitCube /\ [][NextCube]_vars

---------------------------------------------------------------------------
(* The properties.  Their vocabulary is defined here from the characters   *)
(* of the line read, apart from the operators of the model above.          *)

\* the line is empty or all whitespace
IsBlank(l) == \A i \in DOMAIN l : IsSpace(l[i])

\* n is l without its leading and trailing whitespace
IsTrimOf(n, l) ==
    \E a, b \in DOMAIN l :
        /\ ~IsSpace(l[a]) /\ ~IsSpace(l[b])
        /\ \A i \in DOMAIN l : (i < a \/ i > b) => IsSpace(l[i])
        /\ n = SubSeq(l, a, b)

\* the lower-cased line holds an exit word as a substring
HasExitWord(l) ==
    \E w \in EXIT_WORDS : \E i \in DOMAIN l :
        /\ i + Len(w) - 1 <= Len(l)
        /\ \A k \in DOMAIN w : LowerChar(l[i + k - 1]) = w[k]

\* the trimmed, lower-cased line
TrimLower(l) == lower(strip(l))

\* the rules of the reply dispatcher in the order of the claim, and what it
\* is for a text to satisfy each
RULE_ORDER ==
    <<"describe_planet", "why_here", "cube", "weather", "count Humans", "eat",
      "how_are_you", "where_from", "greeting", "yes", "no">>

Satisfies(r, u) ==
    CASE r = "describe_planet" -> describe_planet_re(u)
      [] r = "why_here"        -> why_here_re(u)
      [] r = "cube"            -> cube_re(u)
      [] r = "weather"         -> weather_re(u)
      [] r = "count Humans"    -> count_humans_re(u)
      [] r = "eat"             -> eat_re(u)
      [] r = "how_are_you"     -> how_are_you_re(lower(u))
      [] r = "where_from"      -> where_from_re(lower(u))
      [] r = "greeting"        -> \E w \in GREET_WORDS : split(lower(u)) = <<w>>
      [] r = "yes"             -> lower(u) \in YES
      [] r = "no"              -> lower(u) \in NO

\* the earliest rule the text satisfies, "fallback" if it satisfies none
EarliestRule(u) ==
    LET hits == {k \in DOMAIN RULE_ORDER : Satisfies(RULE_ORDER[k], u)}
    IN  IF hits = {} THEN "fallback"
        ELSE RULE_ORDER[CHOOSE k \in hits : \A j \in hits : k <= j]

\* the replies the handler of a rule can give
FromHandler(r, item) ==
    CASE r = "describe_planet" -> item.kind = "fixed" /\ item.text \in PLANET_LINES
      [] r = "why_here"        -> item.kind = "fixed" /\ item.text \in WHY_LINES
      [] r = "cube"            -> item.kind = "cube"
      [] r = "weather"         -> item.kind = "weather" /\ item.n \in (-15)..40
      [] r = "count Humans"    -> item = Fixed(CENSUS_LINE)
      [] r = "eat"             -> item.kind = "fixed" /\ item.text \in EAT_LINES
      [] r = "how_are_you"     -> item = Fixed(HOW_ARE_YOU_LINE)
      [] r = "where_from"      -> item = Fixed(WHERE_FROM_LINE)
      [] r = "greeting"        -> item.kind = "fixed" /\ item.text \in GREETING_LINES
      [] r = "yes"             -> item = Fixed("Splendid!")
      [] r = "no"              -> item = Fixed("Understood.")
      [] r = "fallback"        -> item.kind = "question"

\* the chat lines by what the claims say of them
BlankInputs == {l \in ChatLines : IsBlank(l)}

ExitInputs == {l \in ChatLines : ~IsBlank(l) /\ HasExitWord(l)}

ReplyInputs == (ChatLines \ BlankInputs) \ ExitInputs

YesInputs == {l \in ReplyInputs : TrimLower(l) \in YES}

NoInputs == {l \in ReplyInputs : TrimLower(l) \in NO}

\* lines that hold a yes or no word without being one, and satisfy no rule
\* ahead of the yes/no check
NearYesNoInputs ==
    {l \in (ReplyInputs \ YesInputs) \ NoInputs :
        /\ \E w \in YES \cup NO : Contains(TrimLower(l), w)
        /\ \A k \in 1..9 : ~Satisfies(RULE_ORDER[k], TrimLower(l))}

\* each reply line with the earliest rule it satisfies
EarliestRules == {<<l, EarliestRule(TrimLower(l))>> : l \in ReplyInputs}

FallbackInputs == {l \in ReplyInputs : <<l, "fallback">> \in EarliestRules}

\* the last step was a reply of chat() to `line`
Replied == rule \notin {"", "blank", "exit"}

NoDuplicates(s) == \A i, j \in DOMAIN s : i # j => s[i] # s[j]

\* C1: in every run of run() the session goes from START through NAMED into
\* CHATTING and on to ENDED with no error state in between.
C1_RunReachesNoError == entry = "run" => pc # "ERROR"

\* C2: in CHATTING a non-blank line ends the session loop (chat() returns)
\* exactly when its lower-cased text holds an exit word as a substring, and
\* such a line produces no reply and leaves the asked-set unchanged.
C2_ExitEndsLoop ==
    [][pc = "CHATTING" =>
          IF line' \in ExitInputs
          THEN /\ pc' = "ENDED"
               /\ asked' = asked
               /\ cycle' = cycle
               /\ \A i \in DOMAIN out' : out'[i].kind = "farewell"
          ELSE pc' # "ENDED"]_vars

C2_Witness == pc = "ENDED" /\ line = <<"w","h","y"," ","a","r","e"," ","y","o","u"," ","h","e","r","e","?"," ","b","y","e">> /\ asked # {}

\* C3: every question returned is in the bank; no question is returned twice
\* between two clearings of the asked-set, which holds exactly the questions
\* returned since the last one; the asked-set is cleared only when every
\* question of the bank has been returned since the last clearing.
C3_NoRepeatCycle ==
    /\ [](/\ NoDuplicates(cycle)
          /\ asked = Range(cycle)
          /\ Range(cycle) \subseteq BankQuestions(question_bank)
          /\ \A i \in DOMAIN out :
                out[i].kind = "question" => out[i].text \in BankQuestions(question_bank))
    /\ [][(pc = "CHATTING" /\ rule' = "fallback" /\ err' = "" /\ Len(cycle') <= Len(cycle)) =>
             /\ Range(cycle) = BankQuestions(question_bank)
             /\ Len(cycle) = Cardinality(BankQuestions(question_bank))
             /\ Len(cycle') = 1]_vars

C3_Witness ==
    /\ Cardinality(BankQuestions(question_bank)) = 3
    /\ Len(cycle) = 3
    /\ Len(question_bank[1]) = 1

\* C4: an input that satisfies no rule gets a question of the bank as its
\* reply, and _reply raises nothing, whatever bank was loaded.
C4_FallbackNeverErrors ==
    rule = "fallback" =>
        /\ err = ""
        /\ Len(out) = 1
        /\ out[1].kind = "question"
        /\ out[1].text \in BankQuestions(question_bank)

\* C5: a line that reaches the cube rule is answered "N cubed is M" with
\* M = N*N*N, and the numeric group always parses, so no parse failure
\* leaves the cube handler.
C5_CubeExactNeverRaises ==
    rule = "cube" =>
        /\ err = ""
        /\ Len(out) = 1
        /\ out[1].kind = "cube"
        /\ out[1].m = out[1].n * out[1].n * out[1].n

\* the decimal digits of a natural number
RECURSIVE Decimal(_)
Decimal(n) ==
    IF n < 10 THEN <<DigitChars[n + 1]>>
    ELSE Decimal(n \div 10) \o <<DigitChars[(n % 10) + 1]>>

\* the numbers the cube lines can name
CubeRange == 0..(10 ^ MaxDigits - 1)

\* the cube lines with the number each names, written plainly and with a
\* leading zero
CubeInputs ==
    {<<<<"c","u","b","e"," ">> \o Decimal(n), n>> : n \in CubeRange}
        \cup {<<<<"C","u","b","e"," ","t","h","e"," ","n","u","m","b","e","r"," ">> \o Decimal(n) \o <<"?">>, n>> : n \in CubeRange}
        \cup {<<<<"c","u","b","e"," ","0">> \o Decimal(n), n>> : n \in 0..(10 ^ (MaxDigits - 1) - 1)}

\* C5, within the range: "cube N" and "cube the number N" are answered with
\* N and N*N*N.
C5_CubeExactInRange ==
    \A c \in CubeInputs :
        (Replied /\ line = c[1]) =>
            /\ err = ""
            /\ out = <<Item("cube", "{n} cubed is {n ** 3}. Isn't that cool?", <<>>,
                            c[2], c[2] * c[2] * c[2])>>

\* C6: the yes and no acknowledgements are given exactly for the lines whose
\* whole trimmed, lower-cased text is a member of YES or of NO; a line that
\* only holds or extends such a word goes to the fallback.
C6_YesNoExact ==
    Replied =>
        /\ (out = <<Fixed("Splendid!")>>) <=> (line \in YesInputs)
        /\ (out = <<Fixed("Understood.")>>) <=> (line \in NoInputs)
        /\ (rule = "yes") <=> (line \in YesInputs)
        /\ (rule = "no") <=> (line \in NoInputs)
        /\ line \in NearYesNoInputs => rule = "fallback"

C6_Witness == rule = "fallback" /\ line = <<"y","e","s","p","l","e","a","s","e">>

\* C7: a line that is empty after trimming prints nothing, leaves the name
\* and the asked-set unchanged and leaves the session in CHATTING.
C7_BlankIgnored ==
    [][(pc = "CHATTING" /\ line' \in BlankInputs) =>
          /\ out' = <<>>
          /\ name' = name
          /\ asked' = asked
          /\ cycle' = cycle
          /\ err' = err
          /\ pc' = "CHATTING"]_vars

C7_Witness ==
    pc = "CHATTING" /\ rule = "blank" /\ line = <<" ","\t"," ">> /\ asked # {} /\ name # None

\* C8 as stated: after _ask_name the name is Earthling exactly when the name
\* line is blank.
C8_EarthlingIffBlank ==
    pc = "NAMED" => ((name = Earthling) <=> IsBlank(line))

\* C8 as amended: after _ask_name the name is Earthling when the name line
\* is blank and the trimmed line otherwise, an exit word included; the
\* greeting carries that name; reading the name leads to NAMED; no chat
\* turn changes the name.
C8_NameDefault ==
    /\ [](pc = "NAMED" =>
            /\ IF IsBlank(line) THEN name = Earthling ELSE IsTrimOf(name, line)
            /\ out = <<Greeting(name)>>)
    /\ [][(pc = "START" => pc' = "NAMED") /\ (pc = "CHATTING" => name' = name)]_vars

C8_Witness == pc = "CHATTING" /\ name = <<"b","y","e">> /\ rule = "fallback" /\ asked # {}

\* C9: the reply to a line comes from the earliest rule of RULE_ORDER the
\* line satisfies, and from the fallback exactly when it satisfies none.
C9_FirstMatchWins ==
    Replied =>
        /\ <<line, rule>> \in EarliestRules
        /\ err = "" => (Len(out) = 1 /\ FromHandler(rule, out[1]))

C9_Witness == rule = "describe_planet" /\ line = <<"c","u","b","e"," ","3"," ","y","o","u","r"," ","p","l","a","n","e","t">>

\* C10: only a turn answered by the fallback question changes the asked-set;
\* the asked-set holds questions of the bank only; it holds the question a
\* fallback turn has just returned, and is empty only while no question has
\* been returned.
C10_AskedFrame ==
    /\ [][asked' # asked =>
             /\ pc = "CHATTING"
             /\ line' \in FallbackInputs
             /\ Len(out') = 1
             /\ out'[1].kind = "question"]_vars
    /\ [](/\ asked \subseteq BankQuestions(question_bank)
          /\ \A i \in DOMAIN out : out[i].kind = "question" => out[i].text \in asked
          /\ (asked = {}) <=> (cycle = <<>>))

C10_Witness == rule = "yes" /\ asked = {"Q1", "Q2"}

=============================================================================
